---- MODULE Spec2Model ----
(***************************************************************************)
(* Face tracking and gallery matching of the dface backend.                *)
(*                                                                         *)
(*   Spec      the FaceTrackingService object driven through its public    *)
(*             methods update_tracks, get_active_tracks and reset.         *)
(*   SessSpec  the /ws/recognize handler: several connections driving the  *)
(*             module-level face_tracking_service of app.main.             *)
(*   MatchSpec FaceRecognitionService.find_best_match over a gallery.      *)
(*   AllSpec   FaceRecognitionService.find_all_matches over a gallery.     *)
(*   CmpSpec   FaceRecognitionService.compare_faces on pairs of embeddings.*)
(*   FaultSpec the three matching methods while a collaborator fails.      *)
(*   AssocSpec update_tracks on frames chosen around the association       *)
(*             threshold.                                                  *)
(*   FrameSpec a single /ws/recognize connection whose frames can fail.    *)
(*                                                                         *)
(* Time is the value of datetime.now() in whole seconds.  Every method     *)
(* call reads the clock once; the clock may have advanced by any amount    *)
(* since the previous call.  Floating point values are exact rationals     *)
(* <<numerator, denominator>>.                                             *)
(***************************************************************************)
EXTENDS Integers, Sequences, FiniteSets, TLC

VARIABLES
    tracks,              \* FaceTrackingService.tracks: dict in insertion order
    next_track_id,       \* FaceTrackingService.next_track_id
    now,                 \* the clock, seconds
    last,                \* the last call: its name, arguments and return value
    allocated,           \* track_ids handed out since the last reset, in order
    evicted,             \* track_ids deleted by _cleanup_tracks since the last reset
    active_connections,  \* ConnectionManager.active_connections
    last_frame_time,     \* websocket_recognize: last_frame_time of each handler
    event,               \* the last step of a websocket_recognize handler
    session_ids,         \* per handler: the new track_ids its frames were answered with
    gallery,             \* rows of face_embeddings joined with users
    match,               \* the last find_best_match call and its return value
    all_matches,         \* the last find_all_matches call and its return value
    match_threshold,     \* FaceRecognitionService.match_threshold
    comparison,          \* the last compare_faces call and its return value
    assoc,               \* the last update_tracks call, detection by detection
    frame,               \* the last frame message and what its handler made of it
    outcome              \* the last call made while a collaborator was failing

vars == <<tracks, next_track_id, now, last, allocated, evicted,
          active_connections, last_frame_time, event, session_ids, gallery, match,
          all_matches, match_threshold, comparison, assoc, frame, outcome>>

sessionVars == <<active_connections, last_frame_time, event, session_ids>>
matchVars == <<gallery, match, all_matches, match_threshold, comparison>>

trackerVars == <<tracks, next_track_id, now, last, allocated, evicted>>

traceVars == <<assoc, frame, outcome>>

---------------------------------------------------------------------------
(* Bounds of the model *)

MaxDets == 2
MaxId == 2
MaxTime == 8
MaxDt == 2

(* Program constants *)

max_track_age == 6
max_time_since_last_seen == 1
iou_threshold == <<3, 10>>

\* Python's None where a user id is expected (user ids of the database start at 1)
NoId == 0
\* Python's None where a name is expected
NoName == "None"

---------------------------------------------------------------------------
(* Exact rational arithmetic standing for the float expressions *)

Abs(x) == IF x < 0 THEN -x ELSE x

RECURSIVE GCD(_, _)
GCD(a, b) == IF b = 0 THEN a ELSE GCD(b, a % b)

Norm(n, d) ==
    LET g == GCD(Abs(n), d)
    IN  IF n = 0 THEN <<0, 1>> ELSE <<n \div g, d \div g>>

RAdd(p, q) == Norm(p[1] * q[2] + q[1] * p[2], p[2] * q[2])
RMul(p, q) == Norm(p[1] * q[1], p[2] * q[2])
RSub(p, q) == Norm(p[1] * q[2] - q[1] * p[2], p[2] * q[2])
RDiv(p, q) == Norm(p[1] * q[2], p[2] * q[1])
RGt(p, q) == p[1] * q[2] > q[1] * p[2]
RGe(p, q) == p[1] * q[2] >= q[1] * p[2]
RLt(p, q) == RGt(q, p)
RLe(p, q) == RGe(q, p)
RMax(p, q) == IF RGe(p, q) THEN p ELSE q
RMin(p, q) == IF RLe(p, q) THEN p ELSE q

Max(a, b) == IF a >= b THEN a ELSE b
Min(a, b) == IF a <= b THEN a ELSE b

(* Integer square root; the embeddings of the model are chosen so that    *)
(* every squared distance is a perfect square.                            *)
RECURSIVE ISqrtFrom(_, _)
ISqrtFrom(n, r) == IF (r + 1) * (r + 1) > n THEN r ELSE ISqrtFrom(n, r + 1)

ISqrt(n) == ISqrtFrom(n, 0)

---------------------------------------------------------------------------
(* Inputs.  A bbox is (top, right, bottom, left) in pixels.  An embedding  *)
(* is a vector in tenths: <<3, 4>> stands for (0.3, 0.4, 0, ..., 0).       *)

BoxA == <<100, 200, 200, 100>>
BoxB == <<105, 205, 205, 105>>
BoxFar == <<300, 400, 400, 300>>

E1 == <<0, 0>>
E2 == <<3, 4>>

(* An element of recognized_users: None (some = FALSE), or the tuple       *)
(* (user_id, user_name, confidence); confidence in hundredths.            *)
NoUserInfo == [some |-> FALSE, user_id |-> NoId, user_name |-> NoName, confidence |-> 0]

Unknown == [some |-> TRUE, user_id |-> NoId, user_name |-> NoName, confidence |-> 0]
Known(id, name, c) == [some |-> TRUE, user_id |-> id, user_name |-> name, confidence |-> c]

Detections ==
    { [bbox |-> BoxA,   encoding |-> E1, user_info |-> NoUserInfo],
      [bbox |-> BoxB,   encoding |-> E1, user_info |-> Known(1, "u1", 90)],
      [bbox |-> BoxFar, encoding |-> E1, user_info |-> Unknown],
      [bbox |-> BoxFar, encoding |-> E2, user_info |-> NoUserInfo] }

Frames == UNION { [1..n -> Detections] : n \in 0..MaxDets }

---------------------------------------------------------------------------
(* FaceTrack *)

\* FaceTrack.__init__
FaceTrack(track_id, face_encoding, bbox, user_id, user_name, confidence, t) ==
    [track_id |-> track_id, face_encoding |-> face_encoding, bbox |-> bbox,
     user_id |-> user_id, user_name |-> user_name, confidence |-> confidence,
     first_seen |-> t, last_seen |-> t, frame_count |-> 1, is_lost |-> FALSE]

\* mutant of update: the identity is overwritten only by a more confident guess
update_if_more_confident(track, bbox, user_id, user_name, confidence, t) ==
    LET moved == [track EXCEPT !.bbox = bbox, !.last_seen = t,
                               !.frame_count = @ + 1, !.is_lost = FALSE]
    IN  IF user_id # NoId /\ confidence > track.confidence
        THEN [moved EXCEPT !.user_id = user_id, !.user_name = user_name,
                           !.confidence = confidence]
        ELSE moved

\* FaceTrack.update
update(track, bbox, user_id, user_name, confidence, t) ==
    LET moved == [track EXCEPT !.bbox = bbox, !.last_seen = t,
                               !.frame_count = @ + 1, !.is_lost = FALSE]
    IN  IF user_id # NoId
        THEN [moved EXCEPT !.user_id = user_id, !.user_name = user_name,
                           !.confidence = confidence]
        ELSE moved

\* mutant of mark_lost: the track is counted as seen in the frame
mark_lost_counting(track) == [track EXCEPT !.is_lost = TRUE, !.frame_count = @ + 1]

\* mutant of mark_lost: the flag is not set
mark_lost_skipped(track) == track

\* FaceTrack.mark_lost
mark_lost(track) == [track EXCEPT !.is_lost = TRUE]

\* FaceTrack.get_age_seconds
get_age_seconds(track, t) == t - track.first_seen

\* FaceTrack.get_time_since_last_seen
get_time_since_last_seen(track, t) == t - track.last_seen

---------------------------------------------------------------------------
(* FaceTrackingService *)

\* _calculate_iou
_calculate_iou(bbox1, bbox2) ==
    LET top1 == bbox1[1]  right1 == bbox1[2]  bottom1 == bbox1[3]  left1 == bbox1[4]
        top2 == bbox2[1]  right2 == bbox2[2]  bottom2 == bbox2[3]  left2 == bbox2[4]
        inter_top == Max(top1, top2)
        inter_left == Max(left1, left2)
        inter_bottom == Min(bottom1, bottom2)
        inter_right == Min(right1, right2)
        inter_area == (inter_bottom - inter_top) * (inter_right - inter_left)
        area1 == (bottom1 - top1) * (right1 - left1)
        area2 == (bottom2 - top2) * (right2 - left2)
        union_area == area1 + area2 - inter_area
    IN  IF inter_bottom <= inter_top \/ inter_right <= inter_left THEN <<0, 1>>
        ELSE IF union_area = 0 THEN <<0, 1>>
        ELSE Norm(inter_area, union_area)

\* _calculate_encoding_distance: np.linalg.norm(encoding1 - encoding2), in tenths
_calculate_encoding_distance(encoding1, encoding2) ==
    ISqrt((encoding1[1] - encoding2[1]) * (encoding1[1] - encoding2[1])
          + (encoding1[2] - encoding2[2]) * (encoding1[2] - encoding2[2]))

\* mutant of Score: the embedding term is missing
ScoreIoUOnly(bbox, encoding, track) == _calculate_iou(bbox, track.bbox)

\* update_tracks, lines 165-173: the combined score of a detection and a track
Score(bbox, encoding, track) ==
    LET iou == _calculate_iou(bbox, track.bbox)
        encoding_dist == _calculate_encoding_distance(encoding, track.face_encoding)
        encoding_similarity == Norm(10, 10 + encoding_dist)
    IN  RAdd(RMul(iou, <<3, 5>>), RMul(encoding_similarity, <<2, 5>>))

\* update_tracks, lines 162-163: the tracks the inner loop does not skip
IsCandidate(track) == ~track.is_lost

\* mutant of FindBestTrack: a score equal to iou_threshold is accepted
RECURSIVE FindBestTrackInclusive(_, _, _, _, _, _)
FindBestTrackInclusive(trs, bbox, encoding, k, best_track, best_score) ==
    IF k > Len(trs) THEN best_track
    ELSE IF ~IsCandidate(trs[k])
         THEN FindBestTrackInclusive(trs, bbox, encoding, k + 1, best_track, best_score)
    ELSE LET score == Score(bbox, encoding, trs[k])
         IN  IF RGt(score, best_score) /\ RGe(score, iou_threshold)
             THEN FindBestTrackInclusive(trs, bbox, encoding, k + 1, k, score)
             ELSE FindBestTrackInclusive(trs, bbox, encoding, k + 1, best_track,
                                         best_score)

\* mutant of FindBestTrack: a later track with an equal score replaces the best
RECURSIVE FindBestTrackLastWins(_, _, _, _, _, _)
FindBestTrackLastWins(trs, bbox, encoding, k, best_track, best_score) ==
    IF k > Len(trs) THEN best_track
    ELSE IF ~IsCandidate(trs[k])
         THEN FindBestTrackLastWins(trs, bbox, encoding, k + 1, best_track, best_score)
    ELSE LET score == Score(bbox, encoding, trs[k])
         IN  IF RGe(score, best_score) /\ RGt(score, iou_threshold)
             THEN FindBestTrackLastWins(trs, bbox, encoding, k + 1, k, score)
             ELSE FindBestTrackLastWins(trs, bbox, encoding, k + 1, best_track,
                                        best_score)

\* update_tracks, lines 157-177: index of best_track in the dict, 0 for None
RECURSIVE FindBestTrack(_, _, _, _, _, _)
FindBestTrack(trs, bbox, encoding, k, best_track, best_score) ==
    IF k > Len(trs) THEN best_track
    ELSE IF ~IsCandidate(trs[k])
         THEN FindBestTrack(trs, bbox, encoding, k + 1, best_track, best_score)
    ELSE LET score == Score(bbox, encoding, trs[k])
         IN  IF RGt(score, best_score) /\ RGt(score, iou_threshold)
             THEN FindBestTrack(trs, bbox, encoding, k + 1, k, score)
             ELSE FindBestTrack(trs, bbox, encoding, k + 1, best_track, best_score)

\* mutant of NextId: the counter is not advanced
NextIdStuck(n) == n

\* update_tracks, line 192: self.next_track_id += 1
NextId(n) == n + 1

\* mutant of UpdateOrCreate: a match refreshes the stored embedding
UpdateOrCreateRefreshing(st, det, best_track, t) ==
    LET user_info == det.user_info
        user_id == IF user_info.some THEN user_info.user_id ELSE NoId
        user_name == IF user_info.some THEN user_info.user_name ELSE NoName
        confidence == IF user_info.some THEN user_info.confidence ELSE 0
        track_id == ToString(st.next_track_id)
    IN  IF best_track # 0
        THEN [st EXCEPT
                !.tracks[best_track] =
                    [update(@, det.bbox, user_id, user_name, confidence, t)
                        EXCEPT !.face_encoding = det.encoding],
                !.matched_tracks = @ \cup {st.tracks[best_track].track_id}]
        ELSE [tracks |-> Append(st.tracks,
                            FaceTrack(track_id, det.encoding, det.bbox, user_id,
                                      user_name, confidence, t)),
              next_track_id |-> NextId(st.next_track_id),
              allocated |-> Append(st.allocated, track_id),
              matched_tracks |-> st.matched_tracks \cup {track_id}]

\* update_tracks, lines 179-202: update best_track (an index, 0 for None) or
\* create a track for one detection.
\* st = [tracks, next_track_id, allocated, matched_tracks]
UpdateOrCreate(st, det, best_track, t) ==
    LET bbox == det.bbox
        encoding == det.encoding
        user_info == det.user_info
        user_id == IF user_info.some THEN user_info.user_id ELSE NoId
        user_name == IF user_info.some THEN user_info.user_name ELSE NoName
        confidence == IF user_info.some THEN user_info.confidence ELSE 0
        track_id == ToString(st.next_track_id)
    IN  IF best_track # 0
        THEN [st EXCEPT
                !.tracks[best_track] = update(@, bbox, user_id, user_name, confidence, t),
                !.matched_tracks = @ \cup {st.tracks[best_track].track_id}]
        ELSE [tracks |-> Append(st.tracks,
                            FaceTrack(track_id, encoding, bbox, user_id, user_name,
                                      confidence, t)),
              next_track_id |-> NextId(st.next_track_id),
              allocated |-> Append(st.allocated, track_id),
              matched_tracks |-> st.matched_tracks \cup {track_id}]

\* update_tracks, lines 156-202: the loop over the detections from the i-th on
RECURSIVE MatchLoop(_, _, _, _)
MatchLoop(st, dets, i, t) ==
    IF i > Len(dets) THEN st
    ELSE MatchLoop(
           UpdateOrCreate(st, dets[i],
                          FindBestTrack(st.tracks, dets[i].bbox, dets[i].encoding,
                                        1, 0, <<0, 1>>),
                          t),
           dets, i + 1, t)

\* a placeholder for "no track" where a track record is expected
NoTrack == FaceTrack("-", <<0, 0>>, <<0, 0, 0, 0>>, NoId, NoName, 0, 0)

\* update_tracks, lines 161-173: what the inner loop computes for one detection:
\* for every track it does not skip, in dict order, the IoU, the embedding
\* distance (tenths) and the score
Candidates(trs, bbox, encoding) ==
    LET idx == SelectSeq([k \in 1..Len(trs) |-> k], LAMBDA k : IsCandidate(trs[k]))
    IN  [j \in 1..Len(idx) |->
            [track_id |-> trs[idx[j]].track_id,
             iou |-> _calculate_iou(bbox, trs[idx[j]].bbox),
             encoding_dist |-> _calculate_encoding_distance(encoding,
                                                            trs[idx[j]].face_encoding),
             score |-> Score(bbox, encoding, trs[idx[j]])]]

\* update_tracks, lines 156-202, observed detection by detection: the tracks
\* scored, the track chosen as it was before and after lines 179-202 (before
\* is NoTrack when a track was created)
TraceEntry(st, det, best_track, after) ==
    [det |-> det,
     candidates |-> Candidates(st.tracks, det.bbox, det.encoding),
     created |-> best_track = 0,
     before |-> IF best_track = 0 THEN NoTrack ELSE st.tracks[best_track],
     after |-> IF best_track = 0 THEN after.tracks[Len(after.tracks)]
               ELSE after.tracks[best_track]]

RECURSIVE MatchTrace(_, _, _, _)
MatchTrace(st, dets, i, t) ==
    IF i > Len(dets) THEN <<>>
    ELSE LET best_track == FindBestTrack(st.tracks, dets[i].bbox, dets[i].encoding,
                                         1, 0, <<0, 1>>)
             after == UpdateOrCreate(st, dets[i], best_track, t)
         IN  <<TraceEntry(st, dets[i], best_track, after)>>
             \o MatchTrace(after, dets, i + 1, t)

\* mutant of ShouldRemove: the lost-grace clause is missing
ShouldRemoveAgeOnly(track, t) == get_age_seconds(track, t) > max_track_age

\* mutant of ShouldRemove: the age clause is missing
ShouldRemoveLostOnly(track, t) ==
    track.is_lost /\ get_time_since_last_seen(track, t) > max_time_since_last_seen

\* _cleanup_tracks, line 220: the removal condition
ShouldRemove(track, t) ==
    \/ get_age_seconds(track, t) > max_track_age
    \/ (track.is_lost /\ get_time_since_last_seen(track, t) > max_time_since_last_seen)

\* _cleanup_tracks
_cleanup_tracks(trs, t) == SelectSeq(trs, LAMBDA track : ~ShouldRemove(track, t))

\* mutant of ActiveTracks: the lost flag is not looked at
ActiveTracksAll(trs) == trs

\* lines 208 and 230: [track for track in self.tracks.values() if not track.is_lost]
ActiveTracks(trs) == SelectSeq(trs, LAMBDA track : ~track.is_lost)

Ids(trs) == { trs[k].track_id : k \in 1..Len(trs) }

\* the tracks a call at clock reading t deleted from self.tracks: their ids,
\* whether they were flagged lost and whether they were over max_track_age
Dropped(before, after, t) ==
    { [track_id |-> before[k].track_id, is_lost |-> before[k].is_lost,
       old |-> get_age_seconds(before[k], t) > max_track_age] :
         k \in { j \in 1..Len(before) : before[j].track_id \notin Ids(after) } }

\* update_tracks, lines 149-154: every track is marked lost and matched_tracks
\* is empty when the loop over the detections starts
LoopStart ==
    [tracks |-> [k \in 1..Len(tracks) |-> mark_lost(tracks[k])],
     next_track_id |-> next_track_id, allocated |-> allocated, matched_tracks |-> {}]

\* update_tracks, whole method, at clock reading t
update_tracks(dets, t) ==
        \E st \in { MatchLoop(LoopStart, dets, 1, t) } :
        \E kept \in { _cleanup_tracks(st.tracks, t) } :
        /\ tracks' = kept
        /\ next_track_id' = st.next_track_id
        /\ allocated' = st.allocated
        /\ evicted' = evicted \cup (Ids(st.tracks) \ Ids(kept))
        /\ last' = [op |-> "update_tracks", dets |-> dets,
                    matched_tracks |-> st.matched_tracks,
                    dropped |-> Dropped(st.tracks, kept, t),
                    result |-> ActiveTracks(kept)]

\* update_tracks leaving by an exception raised while the k-th detection is
\* scored against the tracks (lines 165-169): the tracks are marked lost, the
\* detections before the k-th are processed, _cleanup_tracks is not reached
update_tracks_raising(dets, k, t) ==
        \E st \in { MatchLoop(LoopStart, SubSeq(dets, 1, k - 1), 1, t) } :
        /\ tracks' = st.tracks
        /\ next_track_id' = st.next_track_id
        /\ allocated' = st.allocated
        /\ evicted' = evicted
        /\ last' = [op |-> "update_tracks_raised", dets |-> dets,
                    matched_tracks |-> st.matched_tracks, dropped |-> {},
                    result |-> <<>>]

\* get_active_tracks
get_active_tracks(t) ==
    \E kept \in { _cleanup_tracks(tracks, t) } :
        /\ tracks' = kept
        /\ evicted' = evicted \cup (Ids(tracks) \ Ids(kept))
        /\ last' = [op |-> "get_active_tracks", dets |-> <<>>, matched_tracks |-> {},
                    dropped |-> Dropped(tracks, kept, t),
                    result |-> ActiveTracks(kept)]
        /\ UNCHANGED <<next_track_id, allocated>>

\* mutant of ResetState: the counter survives the reset
ResetStateKeepsCounter == [tracks |-> <<>>, next_track_id |-> next_track_id]

\* reset: the cleared tracker
ResetState == [tracks |-> <<>>, next_track_id |-> 1]

\* reset
reset ==
    /\ tracks' = ResetState.tracks
    /\ next_track_id' = ResetState.next_track_id
    /\ allocated' = <<>>
    /\ evicted' = {}

---------------------------------------------------------------------------
(* FaceRecognitionService *)

\* settings.FACE_MATCH_THRESHOLD, the default
FACE_MATCH_THRESHOLD == <<3, 5>>

\* settings.FACE_CONFIDENCE_THRESHOLD
confidence_threshold == <<17, 20>>

Dot(a, b) == a[1] * b[1] + a[2] * b[2]

\* np.linalg.norm, in tenths
VecNorm(a) == ISqrt(Dot(a, a))

\* mutant of CombinedDistance: the cosine distance is (1 + similarity) / 2
CombinedDistanceSignSlip(known_encoding, unknown_encoding) ==
    LET euclidean_distance ==
            Norm(_calculate_encoding_distance(known_encoding, unknown_encoding), 10)
        known_norm == VecNorm(known_encoding)
        unknown_norm == VecNorm(unknown_encoding)
        cosine_similarity ==
            Norm(Dot(known_encoding, unknown_encoding), known_norm * unknown_norm)
        cosine_distance == RDiv(RAdd(<<1, 1>>, cosine_similarity), <<2, 1>>)
    IN  IF known_norm > 0 /\ unknown_norm > 0
        THEN RAdd(RMul(<<7, 10>>, euclidean_distance), RMul(<<3, 10>>, cosine_distance))
        ELSE euclidean_distance

\* compare_faces, lines 91-104: the combined distance
CombinedDistance(known_encoding, unknown_encoding) ==
    LET euclidean_distance ==
            Norm(_calculate_encoding_distance(known_encoding, unknown_encoding), 10)
        known_norm == VecNorm(known_encoding)
        unknown_norm == VecNorm(unknown_encoding)
        cosine_similarity ==
            Norm(Dot(known_encoding, unknown_encoding), known_norm * unknown_norm)
        cosine_distance == RDiv(RSub(<<1, 1>>, cosine_similarity), <<2, 1>>)
    IN  IF known_norm > 0 /\ unknown_norm > 0
        THEN RAdd(RMul(<<7, 10>>, euclidean_distance), RMul(<<3, 10>>, cosine_distance))
        ELSE euclidean_distance

\* compare_faces, lines 109-114: the three branches below match_threshold
ConfidenceBelowThreshold(combined_distance) ==
    IF RLt(combined_distance, <<3, 10>>)
    THEN RAdd(<<19, 20>>,
              RDiv(RMul(<<1, 20>>, RSub(<<3, 10>>, combined_distance)), <<3, 10>>))
    ELSE IF RLt(combined_distance, <<1, 2>>)
    THEN RAdd(<<4, 5>>,
              RDiv(RMul(<<3, 20>>, RSub(<<1, 2>>, combined_distance)), <<1, 5>>))
    ELSE RAdd(<<7, 10>>,
              RDiv(RMul(<<1, 10>>, RSub(match_threshold, combined_distance)),
                   RSub(match_threshold, <<1, 2>>)))

\* mutant of Confidence: past the threshold the decay is not divided by
\* match_threshold
ConfidenceUnscaled(combined_distance) ==
    LET c == IF \/ RLt(combined_distance, <<1, 2>>)
                \/ RLt(combined_distance, match_threshold)
             THEN ConfidenceBelowThreshold(combined_distance)
             ELSE RMax(<<0, 1>>,
                       RSub(<<7, 10>>, RSub(combined_distance, match_threshold)))
    IN  RMax(<<0, 1>>, RMin(<<1, 1>>, c))

\* mutant of Confidence: past the threshold the decay is added
ConfidenceSignSlip(combined_distance) ==
    LET c == IF \/ RLt(combined_distance, <<1, 2>>)
                \/ RLt(combined_distance, match_threshold)
             THEN ConfidenceBelowThreshold(combined_distance)
             ELSE RMax(<<0, 1>>,
                       RAdd(<<7, 10>>,
                            RDiv(RSub(combined_distance, match_threshold),
                                 match_threshold)))
    IN  RMax(<<0, 1>>, RMin(<<1, 1>>, c))

\* compare_faces, lines 108-118: the confidence curve
Confidence(combined_distance) ==
    LET c == IF RLt(combined_distance, <<3, 10>>)
             THEN RAdd(<<19, 20>>,
                       RDiv(RMul(<<1, 20>>, RSub(<<3, 10>>, combined_distance)), <<3, 10>>))
             ELSE IF RLt(combined_distance, <<1, 2>>)
             THEN RAdd(<<4, 5>>,
                       RDiv(RMul(<<3, 20>>, RSub(<<1, 2>>, combined_distance)), <<1, 5>>))
             ELSE IF RLt(combined_distance, match_threshold)
             THEN RAdd(<<7, 10>>,
                       RDiv(RMul(<<1, 10>>, RSub(match_threshold, combined_distance)),
                            RSub(match_threshold, <<1, 2>>)))
             ELSE RMax(<<0, 1>>,
                       RSub(<<7, 10>>,
                            RDiv(RSub(combined_distance, match_threshold), match_threshold)))
    IN  RMax(<<0, 1>>, RMin(<<1, 1>>, c))

\* mutant of compare_faces: the decision uses the default threshold, the
\* confidence the configured one
compare_faces_default_threshold(known_encoding, unknown_encoding) ==
    LET combined_distance == CombinedDistance(known_encoding, unknown_encoding)
    IN  [is_match |-> RLe(combined_distance, FACE_MATCH_THRESHOLD),
         confidence |-> Confidence(combined_distance)]

\* mutant of compare_faces: the match test is strict
compare_faces_strict(known_encoding, unknown_encoding) ==
    LET combined_distance == CombinedDistance(known_encoding, unknown_encoding)
    IN  [is_match |-> RLt(combined_distance, match_threshold),
         confidence |-> Confidence(combined_distance)]

\* compare_faces
compare_faces(known_encoding, unknown_encoding) ==
    LET combined_distance == CombinedDistance(known_encoding, unknown_encoding)
    IN  [is_match |-> RLe(combined_distance, match_threshold),
         confidence |-> Confidence(combined_distance)]

\* the return value None of find_best_match
NoMatch == [found |-> FALSE, user_id |-> NoId, confidence |-> <<0, 1>>]

\* find_best_match, lines 176-207: user_confidence_map, a dict in insertion
\* order, after the rows from the k-th on
RECURSIVE UserConfidenceMap(_, _, _, _)
UserConfidenceMap(embeddings, unknown_encoding, k, map) ==
    IF k > Len(embeddings) THEN map
    ELSE
    LET embedding == embeddings[k]
        cmp == compare_faces(embedding.embedding, unknown_encoding)
        at == { i \in 1..Len(map) : map[i].user_id = embedding.user_id }
        next ==
            IF ~cmp.is_match THEN map
            ELSE IF at = {}
            THEN Append(map, [user_id |-> embedding.user_id,
                              best_confidence |-> cmp.confidence,
                              best_embedding_id |-> embedding.id])
            ELSE LET i == CHOOSE i \in at : TRUE
                 IN  IF RGt(cmp.confidence, map[i].best_confidence)
                     THEN [map EXCEPT ![i].best_confidence = cmp.confidence,
                                      ![i].best_embedding_id = embedding.id]
                     ELSE map
    IN  UserConfidenceMap(embeddings, unknown_encoding, k + 1, next)

\* find_best_match, lines 209-214: index of the entry with the highest confidence
RECURSIVE BestUser(_, _, _, _)
BestUser(map, k, best_match, best_confidence) ==
    IF k > Len(map) THEN best_match
    ELSE IF RGt(map[k].best_confidence, best_confidence)
         THEN BestUser(map, k + 1, k, map[k].best_confidence)
         ELSE BestUser(map, k + 1, best_match, best_confidence)

\* find_best_match, lines 161-235: the search once the cache has been asked
\* (the recognition cache is disabled by default, REDIS_ENABLED = False)
SearchGallery(unknown_encoding, embeddings, threshold) ==
    LET map == UserConfidenceMap(embeddings, unknown_encoding, 1, <<>>)
        best_match == BestUser(map, 1, 0, <<0, 1>>)
    IN  IF embeddings = <<>> THEN NoMatch
        ELSE IF best_match # 0 /\ RGe(map[best_match].best_confidence, threshold)
        THEN [found |-> TRUE, user_id |-> map[best_match].user_id,
              confidence |-> map[best_match].best_confidence]
        ELSE NoMatch

\* line 152 calls self._get_embedding_hash; FaceRecognitionService defines no
\* such method and has no base class, so the call raises AttributeError
HasEmbeddingHash == FALSE

\* find_best_match: an exception anywhere in the body returns None (lines 237-239)
find_best_match(unknown_encoding, embeddings, threshold) ==
    IF ~HasEmbeddingHash THEN NoMatch
    ELSE SearchGallery(unknown_encoding, embeddings, threshold)

\* mutant of InsertByConfidence: reverse=True is missing, the sort is ascending
InsertAscending(matches, m) ==
    LET before == SelectSeq(matches, LAMBDA x : RLe(x.confidence, m.confidence))
        after == SelectSeq(matches, LAMBDA x : RGt(x.confidence, m.confidence))
    IN  before \o <<m>> \o after

\* find_all_matches, line 271: matches.sort(key=lambda x: x[1], reverse=True) is
\* stable; inserting the entries in list order, each after the entries whose
\* confidence is not smaller, gives the same list
InsertByConfidence(matches, m) ==
    LET before == SelectSeq(matches, LAMBDA x : RGe(x.confidence, m.confidence))
        after == SelectSeq(matches, LAMBDA x : RLt(x.confidence, m.confidence))
    IN  before \o <<m>> \o after

\* find_all_matches, lines 260-271: the sorted matches of the rows from the k-th on
RECURSIVE SortedMatches(_, _, _, _)
SortedMatches(embeddings, unknown_encoding, k, matches) ==
    IF k > Len(embeddings) THEN matches
    ELSE LET c == compare_faces(embeddings[k].embedding, unknown_encoding)
         IN  SortedMatches(embeddings, unknown_encoding, k + 1,
                           IF c.is_match
                           THEN InsertByConfidence(matches,
                                    [user_id |-> embeddings[k].user_id,
                                     confidence |-> c.confidence])
                           ELSE matches)

\* matches[:top_k] for top_k >= 0
Truncate(matches, top_k) == SubSeq(matches, 1, Min(top_k, Len(matches)))

\* find_all_matches
find_all_matches(unknown_encoding, embeddings, top_k) ==
    IF embeddings = <<>> THEN <<>>
    ELSE Truncate(SortedMatches(embeddings, unknown_encoding, 1, <<>>), top_k)

---------------------------------------------------------------------------
(* Spec: the tracker driven through its public methods *)

\* the connections of the model
Sessions == {"A", "B"}

\* no handler has taken a step yet
NoEvent == [session |-> "-", type |-> "init", reply |-> "none"]

\* no find_best_match call yet
NoMatchCall == [called |-> FALSE, query |-> E1, threshold |-> <<0, 1>>,
                result |-> NoMatch]

\* no find_all_matches call yet
NoAllCall == [called |-> FALSE, query |-> E1, top_k |-> 0, result |-> <<>>]

\* no compare_faces call yet
NoCompare == [called |-> FALSE, known |-> E1, unknown |-> E1,
              is_match |-> FALSE, confidence |-> <<0, 1>>]

\* no frame message yet
NoFrame == [session |-> "-", frame_id |-> 0, faces |-> {}, failure |-> "none",
            reply_frame_id |-> 0, previous |-> "none"]

\* no call made under a failing collaborator yet
NoOutcome == [op |-> "init", fault |-> "none", raised |-> FALSE]

NoCall == [op |-> "init", dets |-> <<>>, matched_tracks |-> {}, dropped |-> {},
           result |-> <<>>]

Init ==
    /\ tracks = <<>>
    /\ next_track_id = 1
    /\ now = 1
    /\ last = NoCall
    /\ allocated = <<>>
    /\ evicted = {}
    /\ active_connections = <<>>
    /\ last_frame_time = [s \in Sessions |-> 0]
    /\ event = NoEvent
    /\ session_ids = [s \in Sessions |-> <<>>]
    /\ gallery = <<>>
    /\ match = NoMatchCall
    /\ all_matches = NoAllCall
    /\ match_threshold = FACE_MATCH_THRESHOLD
    /\ comparison = NoCompare
    /\ assoc = <<>>
    /\ frame = NoFrame
    /\ outcome = NoOutcome

\* the clock readings a call can make: the clock never runs backwards
Clock == now..Min(now + MaxDt, MaxTime)

UpdateTracksCall ==
    \E dets \in Frames, t \in Clock :
        /\ next_track_id + Len(dets) <= MaxId + 1
        /\ now' = t
        /\ update_tracks(dets, t)
        /\ UNCHANGED <<sessionVars, matchVars, traceVars>>

GetActiveTracksCall ==
    \E t \in Clock :
        /\ now' = t
        /\ get_active_tracks(t)
        /\ UNCHANGED <<sessionVars, matchVars, traceVars>>

ResetCall ==
    /\ reset
    /\ last' = [op |-> "reset", dets |-> <<>>, matched_tracks |-> {},
                dropped |-> Dropped(tracks, <<>>, now), result |-> <<>>]
    /\ UNCHANGED <<now, sessionVars, matchVars, traceVars>>

Next == UpdateTracksCall \/ GetActiveTracksCall \/ ResetCall

Spec == Init /\ [][Next]_vars

---------------------------------------------------------------------------
(* SessSpec: websocket_recognize handlers sharing app.main's services *)

\* the handlers are followed up to this clock reading
SessMaxTime == 2

SessClock == now..Min(now + 1, SessMaxTime)

MAX_FRAME_RATE == 5
MIN_FACE_SIZE == 100

\* settings.WS_MAX_CONNECTIONS (default 100): the server of the model is
\* configured with 1, so that the connections of the model can exceed it
WS_MAX_CONNECTIONS == 1

BoxSmall == <<10, 60, 60, 10>>

\* mutant of check_face_size: every face passes
check_face_size_any(face_location, min_size) == TRUE

\* check_face_size
check_face_size(face_location, min_size) ==
    LET width == face_location[2] - face_location[4]
        height == face_location[3] - face_location[1]
    IN  width >= min_size /\ height >= min_size

\* what the detector and the encoder make of a frame message: data is
\* "missing", "undecodable" or "image"; faces are the detected faces
Faces == { [bbox |-> BoxA, encoding |-> E1],
           [bbox |-> BoxSmall, encoding |-> E2] }

FrameData ==
    { [data |-> "missing", faces |-> <<>>], [data |-> "undecodable", faces |-> <<>>] }
    \cup { [data |-> "image", faces |-> f] :
             f \in UNION { [1..n -> Faces] : n \in 0..MaxDets } }

\* the rows db.query(FaceEmbedding).join(User) returns while the handlers run
EnrolledGallery == << [id |-> 1, user_id |-> 1, user_name |-> "u1", embedding |-> E1] >>

InList(s, list) == \E i \in 1..Len(list) : list[i] = s

\* list.remove
Remove(list, s) == SelectSeq(list, LAMBDA x : x # s)

\* lines 501-509: recognized_users of the valid faces
recognized_users(valid_faces) ==
    [i \in 1..Len(valid_faces) |->
        LET m == find_best_match(valid_faces[i].encoding, gallery, confidence_threshold)
        IN  IF m.found
            THEN Known(m.user_id, "u1", 90)
            ELSE Unknown]

SessInit ==
    /\ tracks = <<>>
    /\ next_track_id = 1
    /\ now = 1
    /\ last = NoCall
    /\ allocated = <<>>
    /\ evicted = {}
    /\ active_connections = <<>>
    /\ last_frame_time = [s \in Sessions |-> 0]
    /\ event = NoEvent
    /\ session_ids = [s \in Sessions |-> <<>>]
    /\ gallery = EnrolledGallery
    /\ match = NoMatchCall
    /\ all_matches = NoAllCall
    /\ match_threshold = FACE_MATCH_THRESHOLD
    /\ comparison = NoCompare
    /\ assoc = <<>>
    /\ frame = NoFrame
    /\ outcome = NoOutcome

ResetLast == [op |-> "reset", dets |-> <<>>, matched_tracks |-> {},
              dropped |-> Dropped(tracks, <<>>, now), result |-> <<>>]

\* lines 400-434: a client connects
Connect(s) ==
    /\ ~InList(s, active_connections)
    /\ active_connections' = Append(active_connections, s)
    /\ reset
    /\ last' = ResetLast
    /\ last_frame_time' = [last_frame_time EXCEPT ![s] = 0]
    /\ session_ids' = [session_ids EXCEPT ![s] = <<>>]
    /\ event' = [session |-> s, type |-> "connect", reply |-> "connection_established"]
    /\ UNCHANGED <<now, matchVars, traceVars>>

\* the frame_id values of the frame messages
FrameIds == {1, 2}

\* what goes wrong while a frame is processed: nothing, face_encodings raising
\* inside extract_multiple_embeddings, or update_tracks raising
Faults == {"none", "encoder", "tracker"}

\* extract_multiple_embeddings: one embedding per face, or [] when
\* face_recognition.face_encodings raises
extract_multiple_embeddings(valid_faces, fault) ==
    IF fault = "encoder" THEN <<>>
    ELSE [i \in 1..Len(valid_faces) |-> valid_faces[i].encoding]

\* mutant of ErrorMessage: the error message does not name the frame
ErrorMessageAnonymous(frame_id) == [type |-> "error", frame_id |-> 0]

\* lines 559-565: the message sent by the except clause of the frame branch
ErrorMessage(frame_id) == [type |-> "error", frame_id |-> frame_id]

\* lines 470-475, 485-490, 545-551: the recognition_result message
ResultMessage(frame_id) == [type |-> "recognition_result", frame_id |-> frame_id]

\* no message is sent
NoMessage == [type |-> "none", frame_id |-> 0]

\* what failed in the handler's previous step, if that was a frame of session s
PreviousFailure(s) ==
    IF event.session = s /\ event.type = "frame" THEN frame.failure ELSE "none"

\* the frame message of session s (frame_id and the boxes of the faces the
\* detector finds in it), what failed and what was sent back
Handled(s, frame_id, data, failure, message) ==
    /\ frame' = [session |-> s, frame_id |-> frame_id,
                 faces |-> { data.faces[i].bbox : i \in 1..Len(data.faces) },
                 failure |-> failure, reply_frame_id |-> message.frame_id,
                 previous |-> PreviousFailure(s)]
    /\ event' = [session |-> s, type |-> "frame", reply |-> message.type]

\* lines 448-565: a frame message with the given frame_id, processed while
\* the given collaborator fails
FrameMsgWith(s, frame_id, fault) ==
    /\ InList(s, active_connections)
    /\ \E t \in SessClock, data \in FrameData :
       \E valid_faces \in { SelectSeq(data.faces,
                                      LAMBDA f : check_face_size(f.bbox, MIN_FACE_SIZE)) } :
       \* the encoder and the tracker are only reached with a valid face
       /\ fault = "none" \/ valid_faces # <<>>
       /\ \E face_encodings \in { extract_multiple_embeddings(valid_faces, fault) } :
          \E users \in { recognized_users(valid_faces) } :
          \E dets \in { [i \in 1..Len(valid_faces) |->
                           [bbox |-> valid_faces[i].bbox, encoding |-> valid_faces[i].encoding,
                            user_info |-> users[i]]] } :
          /\ now' = t
          /\ IF (t - last_frame_time[s]) * MAX_FRAME_RATE < 1
             THEN \* line 452: the frame is skipped
                  /\ Handled(s, frame_id, data, "none", NoMessage)
                  /\ UNCHANGED <<tracks, next_track_id, last, allocated, evicted,
                                 last_frame_time, session_ids>>
             ELSE /\ last_frame_time' = [last_frame_time EXCEPT ![s] = t]
                  /\ IF data.data = "missing"
                     THEN \* line 459
                          /\ Handled(s, frame_id, data, "none", NoMessage)
                          /\ UNCHANGED <<tracks, next_track_id, last, allocated, evicted,
                                         session_ids>>
                     ELSE IF data.data = "undecodable"
                     THEN \* line 461 raises, lines 559-565
                          /\ Handled(s, frame_id, data, "decode", ErrorMessage(frame_id))
                          /\ UNCHANGED <<tracks, next_track_id, last, allocated, evicted,
                                         session_ids>>
                     ELSE IF data.faces = <<>> \/ valid_faces = <<>>
                     THEN \* lines 469-476 and 484-491
                          /\ Handled(s, frame_id, data, "none", ResultMessage(frame_id))
                          /\ UNCHANGED <<tracks, next_track_id, last, allocated, evicted,
                                         session_ids>>
                     ELSE IF Len(face_encodings) # Len(valid_faces)
                     THEN \* lines 496-498
                          /\ Handled(s, frame_id, data, "encoder", NoMessage)
                          /\ UNCHANGED <<tracks, next_track_id, last, allocated, evicted,
                                         session_ids>>
                     ELSE IF fault = "tracker" /\ Len(dets) >= 2
                     THEN \* line 512 raises, lines 559-565
                          /\ next_track_id + Len(dets) <= MaxId + 1
                          /\ \E k \in 2..Len(dets) : update_tracks_raising(dets, k, t)
                          /\ Handled(s, frame_id, data, "tracker", ErrorMessage(frame_id))
                          /\ UNCHANGED session_ids
                     ELSE /\ next_track_id + Len(dets) <= MaxId + 1
                          /\ update_tracks(dets, t)
                          /\ session_ids' =
                                [session_ids EXCEPT ![s] =
                                    @ \o SubSeq(allocated', Len(allocated) + 1, Len(allocated'))]
                          /\ Handled(s, frame_id, data, "none", ResultMessage(frame_id))
          /\ UNCHANGED <<active_connections, matchVars, assoc, outcome>>

\* a frame message processed without a failing collaborator
FrameMsg(s) == FrameMsgWith(s, 1, "none")

\* a frame message with any frame_id, processed under any fault
FrameMsgFaulty(s) == \E frame_id \in FrameIds, fault \in Faults : FrameMsgWith(s, frame_id, fault)

\* lines 567-572: a ping message
PingMsg(s) ==
    /\ InList(s, active_connections)
    /\ event' = [session |-> s, type |-> "ping", reply |-> "pong"]
    /\ event' # event
    /\ UNCHANGED <<trackerVars, active_connections, last_frame_time, session_ids,
                   matchVars, traceVars>>

\* lines 574-580: a reset message
ResetMsg(s) ==
    /\ InList(s, active_connections)
    /\ reset
    /\ last' = ResetLast
    /\ session_ids' = [session_ids EXCEPT ![s] = <<>>]
    /\ event' = [session |-> s, type |-> "reset", reply |-> "reset_confirmed"]
    /\ UNCHANGED <<now, active_connections, last_frame_time, matchVars, traceVars>>

\* lines 588-595: the client disconnects
Disconnect(s) ==
    /\ InList(s, active_connections)
    /\ active_connections' = Remove(active_connections, s)
    /\ reset
    /\ last' = ResetLast
    /\ event' = [session |-> s, type |-> "disconnect", reply |-> "none"]
    /\ UNCHANGED <<now, last_frame_time, session_ids, matchVars, traceVars>>

SessNext ==
    \E s \in Sessions :
        Connect(s) \/ FrameMsg(s) \/ PingMsg(s) \/ ResetMsg(s) \/ Disconnect(s)

SessSpec == SessInit /\ [][SessNext]_vars

\* one connection alone on the server
FrameNext ==
    Connect("A") \/ FrameMsgFaulty("A") \/ PingMsg("A") \/ ResetMsg("A") \/ Disconnect("A")

FrameSpec == SessInit /\ [][FrameNext]_vars

---------------------------------------------------------------------------
(* MatchSpec: find_best_match over a gallery that users are enrolled in    *)
(* and deleted from                                                        *)

MaxGallery == 3

Users == {1, 2}
E3 == <<3, 0>>
E4 == <<3, -4>>
Queries == {E1, E2, E3}

\* the (user, embedding) pairs that are enrolled: user 1 from two angles, user 2
\* from one angle user 1 also has and from one that is no match of E2
Enrollments ==
    { [user_id |-> 1, embedding |-> E1], [user_id |-> 1, embedding |-> E2],
      [user_id |-> 2, embedding |-> E2], [user_id |-> 2, embedding |-> E4] }
Thresholds == { confidence_threshold, <<19, 20>>, <<1, 2>> }

MatchInit ==
    /\ tracks = <<>>
    /\ next_track_id = 1
    /\ now = 1
    /\ last = NoCall
    /\ allocated = <<>>
    /\ evicted = {}
    /\ active_connections = <<>>
    /\ last_frame_time = [s \in Sessions |-> 0]
    /\ event = NoEvent
    /\ session_ids = [s \in Sessions |-> <<>>]
    /\ gallery = <<>>
    /\ match = NoMatchCall
    /\ all_matches = NoAllCall
    /\ match_threshold = FACE_MATCH_THRESHOLD
    /\ comparison = NoCompare
    /\ assoc = <<>>
    /\ frame = NoFrame
    /\ outcome = NoOutcome

\* the id of the next face_embeddings row: a primary key no present row has
NextRowId ==
    CHOOSE n \in 1..(Len(gallery) + 1) :
        /\ \A i \in 1..Len(gallery) : gallery[i].id # n
        /\ \A m \in 1..(n - 1) : \E i \in 1..Len(gallery) : gallery[i].id = m

\* UserService.add_face_embedding
Enroll ==
    \E r \in Enrollments :
        /\ Len(gallery) < MaxGallery
        /\ gallery' = Append(gallery, [id |-> NextRowId, user_id |-> r.user_id,
                                       user_name |-> "u", embedding |-> r.embedding])
        /\ match' = [match EXCEPT !.called = FALSE]
        /\ all_matches' = NoAllCall
        /\ UNCHANGED <<trackerVars, sessionVars, traceVars, match_threshold, comparison>>

\* UserService.delete_user: the user's rows go with the user
DeleteUser ==
    \E u \in Users :
        /\ \E i \in 1..Len(gallery) : gallery[i].user_id = u
        /\ gallery' = SelectSeq(gallery, LAMBDA row : row.user_id # u)
        /\ match' = [match EXCEPT !.called = FALSE]
        /\ all_matches' = NoAllCall
        /\ UNCHANGED <<trackerVars, sessionVars, traceVars, match_threshold, comparison>>

FindBestMatchCall ==
    \E q \in Queries, th \in Thresholds :
        /\ match' = [called |-> TRUE, query |-> q, threshold |-> th,
                     result |-> find_best_match(q, gallery, th)]
        /\ all_matches' = NoAllCall
        /\ UNCHANGED <<trackerVars, sessionVars, traceVars, gallery, match_threshold, comparison>>

\* the largest top_k of the model
MaxTopK == 2

FindAllMatchesCall ==
    \E q \in Queries, top_k \in 1..MaxTopK :
        /\ all_matches' = [called |-> TRUE, query |-> q, top_k |-> top_k,
                           result |-> find_all_matches(q, gallery, top_k)]
        /\ match' = NoMatchCall
        /\ UNCHANGED <<trackerVars, sessionVars, traceVars, gallery, match_threshold, comparison>>

MatchNext == Enroll \/ DeleteUser \/ FindBestMatchCall

MatchSpec == MatchInit /\ [][MatchNext]_vars

\* AllSpec: find_all_matches over the same galleries
AllNext == Enroll \/ DeleteUser \/ FindAllMatchesCall

AllSpec == MatchInit /\ [][AllNext]_vars

---------------------------------------------------------------------------
(* CmpSpec: compare_faces of a service constructed with some                *)
(* FACE_MATCH_THRESHOLD, applied to pairs of embeddings                     *)

\* the largest component of an embedding, in tenths
MaxCoord == 6

\* the values of settings.FACE_MATCH_THRESHOLD the service is constructed with
MatchThresholds == { <<2, 5>>, <<1, 2>>, FACE_MATCH_THRESHOLD, <<4, 5>> }

IsSquare(n) == ISqrt(n) * ISqrt(n) = n

\* the embeddings whose norm is a whole number of tenths
Embeddings ==
    { e \in (0..MaxCoord) \X ((-MaxCoord)..MaxCoord) : IsSquare(Dot(e, e)) }

\* the pairs of embeddings whose distance is a whole number of tenths: for
\* these (known, unknown) the rational arithmetic is exact
ComparablePairs ==
    { p \in Embeddings \X Embeddings :
        IsSquare(Dot(<<p[1][1] - p[2][1], p[1][2] - p[2][2]>>,
                     <<p[1][1] - p[2][1], p[1][2] - p[2][2]>>)) }

CmpInit ==
    /\ tracks = <<>>
    /\ next_track_id = 1
    /\ now = 1
    /\ last = NoCall
    /\ allocated = <<>>
    /\ evicted = {}
    /\ active_connections = <<>>
    /\ last_frame_time = [s \in Sessions |-> 0]
    /\ event = NoEvent
    /\ session_ids = [s \in Sessions |-> <<>>]
    /\ gallery = <<>>
    /\ match = NoMatchCall
    /\ all_matches = NoAllCall
    /\ match_threshold \in MatchThresholds
    /\ comparison = NoCompare
    /\ assoc = <<>>
    /\ frame = NoFrame
    /\ outcome = NoOutcome

CompareFacesCall ==
    \E p \in ComparablePairs :
    \E r \in { compare_faces(p[1], p[2]) } :
        /\ comparison' = [called |-> TRUE, known |-> p[1], unknown |-> p[2],
                          is_match |-> r.is_match, confidence |-> r.confidence]
        /\ UNCHANGED <<trackerVars, sessionVars, traceVars, gallery, match, all_matches,
                       match_threshold>>

CmpNext == CompareFacesCall

CmpSpec == CmpInit /\ [][CmpNext]_vars

---------------------------------------------------------------------------
(* FaultSpec: the three matching methods called while a collaborator fails *)

\* a method body ran to its return statement
Returned(v) == [raised |-> FALSE, value |-> v]

\* a method body was left by an exception; value is not looked at
Raised(v) == [raised |-> TRUE, value |-> v]

\* mutant of Except: the except clause is missing, the exception goes on
ExceptMissing(body, fallback) == body

\* try: body / except Exception as e: return fallback
Except(body, fallback) == IF body.raised THEN Returned(fallback) ELSE body

\* the return value (False, 0.0) of compare_faces
NoComparison == [is_match |-> FALSE, confidence |-> <<0, 1>>]

\* compare_faces, lines 90-132, with embeddings of different shapes when fault
\* is "shape": face_distance raises
compare_faces_body(known_encoding, unknown_encoding, fault) ==
    IF fault = "shape" THEN Raised(NoComparison)
    ELSE Returned(compare_faces(known_encoding, unknown_encoding))

\* compare_faces with its try/except
compare_faces_try(known_encoding, unknown_encoding, fault) ==
    Except(compare_faces_body(known_encoding, unknown_encoding, fault), NoComparison)

\* find_best_match, lines 151-235: line 152 raises AttributeError; db.query
\* raises when fault is "store"; a failing cache is caught inside
\* CacheService, which then answers None
find_best_match_body(unknown_encoding, embeddings, threshold, fault) ==
    IF ~HasEmbeddingHash \/ fault = "store" THEN Raised(NoMatch)
    ELSE Returned(SearchGallery(unknown_encoding, embeddings, threshold))

\* find_best_match with its try/except
find_best_match_try(unknown_encoding, embeddings, threshold, fault) ==
    Except(find_best_match_body(unknown_encoding, embeddings, threshold, fault), NoMatch)

\* find_all_matches, lines 255-272: db.query raises when fault is "store"; with
\* fault "shape" every compare_faces call returns (False, 0.0)
find_all_matches_body(unknown_encoding, embeddings, top_k, fault) ==
    IF fault = "store" THEN Raised(<<>>)
    ELSE IF fault = "shape" THEN Returned(<<>>)
    ELSE Returned(find_all_matches(unknown_encoding, embeddings, top_k))

\* find_all_matches with its try/except
find_all_matches_try(unknown_encoding, embeddings, top_k, fault) ==
    Except(find_all_matches_body(unknown_encoding, embeddings, top_k, fault), <<>>)

E8 == <<0, 6>>
E9 == <<0, -6>>

\* the pairs compared: distances 0, 0.4, 0.752, 1.14 among others
FaultPairs ==
    { p \in ComparablePairs : p[1] \in {E2, E3, E4, E8, E9} /\ p[2] \in {E2, E3, E4, E8, E9} }

\* the galleries searched: empty, one row, four rows of two users
FaultGalleries ==
    { <<>>,
      EnrolledGallery,
      << [id |-> 1, user_id |-> 1, user_name |-> "u", embedding |-> E1],
         [id |-> 2, user_id |-> 1, user_name |-> "u", embedding |-> E2],
         [id |-> 3, user_id |-> 2, user_name |-> "u", embedding |-> E2],
         [id |-> 4, user_id |-> 2, user_name |-> "u", embedding |-> E4] >> }

FaultInit ==
    /\ tracks = <<>>
    /\ next_track_id = 1
    /\ now = 1
    /\ last = NoCall
    /\ allocated = <<>>
    /\ evicted = {}
    /\ active_connections = <<>>
    /\ last_frame_time = [s \in Sessions |-> 0]
    /\ event = NoEvent
    /\ session_ids = [s \in Sessions |-> <<>>]
    /\ gallery \in FaultGalleries
    /\ match = NoMatchCall
    /\ all_matches = NoAllCall
    /\ match_threshold = FACE_MATCH_THRESHOLD
    /\ comparison = NoCompare
    /\ assoc = <<>>
    /\ frame = NoFrame
    /\ outcome = NoOutcome

CompareFacesFaulty ==
    \E p \in FaultPairs, fault \in {"none", "shape"} :
    \E r \in { compare_faces_try(p[1], p[2], fault) } :
        /\ comparison' = [called |-> TRUE, known |-> p[1], unknown |-> p[2],
                          is_match |-> r.value.is_match,
                          confidence |-> r.value.confidence]
        /\ outcome' = [op |-> "compare_faces", fault |-> fault, raised |-> r.raised]
        /\ match' = NoMatchCall
        /\ all_matches' = NoAllCall
        /\ UNCHANGED <<trackerVars, sessionVars, assoc, frame, gallery, match_threshold>>

FindBestMatchFaulty ==
    \E q \in Queries, fault \in {"none", "store", "cache"} :
    \E r \in { find_best_match_try(q, gallery, confidence_threshold, fault) } :
        /\ match' = [called |-> TRUE, query |-> q, threshold |-> confidence_threshold,
                     result |-> r.value]
        /\ outcome' = [op |-> "find_best_match", fault |-> fault, raised |-> r.raised]
        /\ comparison' = NoCompare
        /\ all_matches' = NoAllCall
        /\ UNCHANGED <<trackerVars, sessionVars, assoc, frame, gallery, match_threshold>>

FindAllMatchesFaulty ==
    \E q \in Queries, top_k \in 1..MaxTopK, fault \in {"none", "store", "shape"} :
    \E r \in { find_all_matches_try(q, gallery, top_k, fault) } :
        /\ all_matches' = [called |-> TRUE, query |-> q, top_k |-> top_k,
                           result |-> r.value]
        /\ outcome' = [op |-> "find_all_matches", fault |-> fault, raised |-> r.raised]
        /\ comparison' = NoCompare
        /\ match' = NoMatchCall
        /\ UNCHANGED <<trackerVars, sessionVars, assoc, frame, gallery, match_threshold>>

FaultNext == CompareFacesFaulty \/ FindBestMatchFaulty \/ FindAllMatchesFaulty

FaultSpec == FaultInit /\ [][FaultNext]_vars

---------------------------------------------------------------------------
(* AssocSpec: update_tracks on frames whose detections meet, miss and tie  *)
(* on the association score                                                *)

\* frames of up to AssocMaxDets detections, AssocMaxId track ids per reset
AssocMaxDets == 3
AssocMaxId == 3

BoxMid == <<500, 600, 600, 500>>

\* IoU with BoxA is 2000 / 12000 = 1/6
BoxSixth == <<100, 220, 200, 180>>

E5 == <<3, -2>>
E7 == <<3, 10>>

(* Scores, all at IoU 0 but the last: first against second 0.4 / 1.4,      *)
(* third against first and against second 0.4 / 1.2, fourth against first  *)
(* 0.6 / 6 + 0.4 / 2 = 0.3.                                                *)
AssocDetections ==
    { [bbox |-> BoxA,     encoding |-> E3, user_info |-> Known(1, "u1", 90)],
      [bbox |-> BoxFar,   encoding |-> E4, user_info |-> Known(2, "u2", 50)],
      [bbox |-> BoxMid,   encoding |-> E5, user_info |-> Unknown],
      [bbox |-> BoxSixth, encoding |-> E7, user_info |-> NoUserInfo] }

AssocFrames == UNION { [1..n -> AssocDetections] : n \in 0..AssocMaxDets }

\* the frames follow each other within the same second
AssocUpdateCall ==
    \E dets \in AssocFrames, t \in {now} :
        /\ next_track_id + Len(dets) <= AssocMaxId + 1
        /\ now' = t
        /\ update_tracks(dets, t)
        /\ assoc' = MatchTrace(LoopStart, dets, 1, t)
        /\ UNCHANGED <<sessionVars, matchVars, frame, outcome>>

AssocGetActiveCall ==
    \E t \in {now} :
        /\ now' = t
        /\ get_active_tracks(t)
        /\ assoc' = <<>>
        /\ UNCHANGED <<sessionVars, matchVars, frame, outcome>>

AssocResetCall ==
    /\ reset
    /\ last' = ResetLast
    /\ assoc' = <<>>
    /\ UNCHANGED <<now, sessionVars, matchVars, frame, outcome>>

AssocNext == AssocUpdateCall \/ AssocGetActiveCall \/ AssocResetCall

AssocSpec == Init /\ [][AssocNext]_vars

---------------------------------------------------------------------------
(* Claims about the tracker, checked under Spec *)

IsCall(l) == l.op \in {"update_tracks", "get_active_tracks"}

\* the state right after the first update_tracks call on a freshly reset
\* tracker, the call carrying one detection
AfterFirstFrame ==
    /\ last.op = "update_tracks"
    /\ Len(last.dets) = 1
    /\ allocated = <<"1">>
    /\ Len(tracks) = 1
    /\ tracks[1].frame_count = 1
    /\ tracks[1].first_seen = now
    /\ Len(last.result) = 1

\* C1: after one detection on a fresh tracker, a second update_tracks call
\* with the same bbox and embedding, within max_lost_grace and max_track_age,
\* returns the track_id of the first call and creates no second track.
C1_TrackContinuity ==
    [][ ( /\ AfterFirstFrame
          /\ last'.op = "update_tracks"
          /\ last'.dets = last.dets
          /\ now' - now <= max_time_since_last_seen
          /\ now' - now <= max_track_age )
        => ( /\ Len(last'.result) = 1
             /\ last'.result[1].track_id = last.result[1].track_id
             /\ next_track_id' = next_track_id
             /\ Len(tracks') = 1 ) ]_vars

\* C3: a track has frame_hit_count 1 in the frame that creates it and gains
\* exactly 1 in every later frame in which a detection is associated with it,
\* and nothing otherwise; in the scenario BoxA then BoxB with the same
\* embedding, frame 2 returns the track of frame 1 with frame_hit_count 2.
C3_FrameHitCount ==
    [][ ( last'.op = "update_tracks" =>
            \A k \in 1..Len(tracks') :
                LET new == tracks'[k]
                    old == { tracks[j] : j \in { i \in 1..Len(tracks) :
                                                   tracks[i].track_id = new.track_id } }
                IN  /\ (old = {} => new.frame_count = 1)
                    /\ \A o \in old :
                          new.frame_count =
                            o.frame_count
                            + (IF new.track_id \in last'.matched_tracks THEN 1 ELSE 0) )
        /\ ( ( /\ AfterFirstFrame
               /\ last.dets[1].bbox = BoxA
               /\ last'.op = "update_tracks"
               /\ Len(last'.dets) = 1
               /\ last'.dets[1].bbox = BoxB
               /\ last'.dets[1].encoding = last.dets[1].encoding
               /\ now' - now <= max_time_since_last_seen )
             => ( /\ Len(last'.result) = 1
                  /\ last'.result[1].track_id = last.result[1].track_id
                  /\ last'.result[1].frame_count = 2 ) ) ]_vars

\* C4: the n detections of one update_tracks call are assigned to n pairwise
\* distinct tracks.
C4_DistinctTracksPerFrame ==
    last.op = "update_tracks" => Cardinality(last.matched_tracks) = Len(last.dets)

\* C5: between two resets the allocated track_ids are "1", "2", "3", ... in
\* order, and no track_id names two tracks, also after its holder was evicted.
C5_TrackIdAllocation ==
    /\ \A i \in 1..Len(allocated) : allocated[i] = ToString(i)
    /\ \A i, j \in 1..Len(tracks) : tracks[i].track_id = tracks[j].track_id => i = j
    /\ Ids(tracks) \cap evicted = {}
    /\ Ids(tracks) \cup evicted = { allocated[i] : i \in 1..Len(allocated) }

C5_Witness ==
    /\ Len(allocated) >= 2
    /\ "1" \in evicted
    /\ "2" \in Ids(tracks)

\* C6: after reset the tracker holds no track, get_active_tracks returns the
\* empty list, and the first track created afterwards has track_id "1".
C6_Reset ==
    /\ last.op = "reset" =>
          /\ tracks = <<>>
          /\ ActiveTracks(_cleanup_tracks(tracks, now)) = <<>>
          /\ next_track_id = 1
    /\ allocated # <<>> => allocated[1] = "1"
    /\ (last.op = "update_tracks" /\ last.dropped = {} /\ Len(tracks) = 1
        /\ tracks[1].frame_count = 1 /\ Len(allocated) = 1)
          => tracks[1].track_id = "1"

\* reset has cleared a tracker holding tracks whose counter had advanced
C6_Witness ==
    /\ last.op = "reset"
    /\ Cardinality(last.dropped) >= 2

\* C7: a track flagged lost with now - last_seen > max_lost_grace when
\* update_tracks or get_active_tracks runs is removed by that call, is absent
\* from its result, and is in no later result.
C7_LostGraceEviction ==
    [][ /\ ( IsCall(last') =>
               \A k \in 1..Len(tracks) :
                  ( /\ tracks[k].is_lost
                    /\ now' - tracks[k].last_seen > max_time_since_last_seen )
                  => ( /\ tracks[k].track_id \notin Ids(tracks')
                       /\ tracks[k].track_id \notin Ids(last'.result)
                       /\ tracks[k].track_id \in evicted' ) )
        /\ evicted' \cap Ids(last'.result) = {}
        /\ evicted' \cap Ids(tracks') = {}
        /\ (last'.op # "reset" => evicted \subseteq evicted') ]_vars

\* a lost track was removed for the grace period alone
C7_Witness ==
    /\ IsCall(last)
    /\ \E r \in last.dropped : r.is_lost /\ ~r.old

\* C8: no track older than max_track_age survives an update_tracks or
\* get_active_tracks call, lost or not.
C8_LifetimeCeiling ==
    IsCall(last) =>
        \A k \in 1..Len(tracks) : now - tracks[k].first_seen <= max_track_age

\* a track that was not lost was removed for its age
C8_Witness ==
    /\ IsCall(last)
    /\ \E r \in last.dropped : ~r.is_lost /\ r.old

\* C9: update_tracks returns exactly the tracks still held that a detection
\* of the call matched or created; no returned track is flagged lost.
C9_ResultOfUpdate ==
    /\ last.op = "update_tracks" =>
          /\ Ids(last.result) = last.matched_tracks \cap Ids(tracks)
          /\ \A k \in 1..Len(tracks) :
                (tracks[k].track_id \in last.matched_tracks) <=>
                (\E i \in 1..Len(last.result) : last.result[i] = tracks[k])
    /\ IsCall(last) =>
          /\ \A i \in 1..Len(last.result) : ~last.result[i].is_lost
          /\ \A i \in 1..Len(last.result) :
                \E k \in 1..Len(tracks) : tracks[k] = last.result[i]

\* update_tracks returned a track while a lost one is still held
C9_Witness ==
    /\ last.op = "update_tracks"
    /\ last.result # <<>>
    /\ \E k \in 1..Len(tracks) : tracks[k].is_lost

\* C19: update_tracks with an empty detection list returns the empty list,
\* creates no track and allocates no track_id, and removes every track last
\* seen more than max_lost_grace ago; a get_active_tracks call that follows
\* it returns the empty list.
C19_EmptyFrame ==
    [][ /\ ( (last'.op = "update_tracks" /\ last'.dets = <<>>) =>
               /\ last'.result = <<>>
               /\ next_track_id' = next_track_id
               /\ allocated' = allocated
               /\ Ids(tracks') \subseteq Ids(tracks)
               /\ \A k \in 1..Len(tracks) :
                     now' - tracks[k].last_seen > max_time_since_last_seen
                       => tracks[k].track_id \notin Ids(tracks') )
        /\ ( ( /\ last.op = "update_tracks"
               /\ last.dets = <<>>
               /\ last'.op = "get_active_tracks" )
             => last'.result = <<>> ) ]_vars

\* an empty frame came more than max_lost_grace after a track was last seen
\* and the track, not yet over max_track_age, was removed
C19_Witness ==
    /\ last.op = "update_tracks"
    /\ last.dets = <<>>
    /\ last.result = <<>>
    /\ \E r \in last.dropped : r.is_lost /\ ~r.old

---------------------------------------------------------------------------
(* Claims about the sessions, checked under SessSpec *)

\* C20: the number of active connections the ConnectionManager holds never
\* exceeds WS_MAX_CONNECTIONS.
C20_ConnectionLimit == Len(active_connections) <= WS_MAX_CONNECTIONS

\* C2: with two sessions connected, no event of one session changes the
\* tracks, lost flags or track-id counter the other session observes, and the
\* track_ids a session receives are "1", "2", ... in order.
C2_SessionIndependence ==
    [][ /\ \A a, b \in Sessions :
              ( /\ a # b
                /\ InList(a, active_connections)
                /\ InList(b, active_connections')
                /\ event'.session = b )
              => ( tracks' = tracks /\ next_track_id' = next_track_id )
        /\ \A a \in Sessions :
              \A i \in 1..Len(session_ids'[a]) : session_ids'[a][i] = ToString(i) ]_vars

---------------------------------------------------------------------------
(* Claims about the matcher: find_best_match under MatchSpec,              *)
(* find_all_matches under AllSpec                                          *)

\* the users owning a gallery row equal to the query (distance 0)
ExactUsers(q) == { gallery[i].user_id : i \in { j \in 1..Len(gallery) : gallery[j].embedding = q } }

\* one gallery row per identity
OnePerIdentity ==
    \A i, j \in 1..Len(gallery) : gallery[i].user_id = gallery[j].user_id => i = j

\* C10: with one row per identity and exactly one identity at distance 0
\* from the query, find_best_match returns that identity with confidence
\* >= 0.95, for every confidence threshold <= 0.95.
C10_ExactMatch ==
    ( /\ match.called
      /\ OnePerIdentity
      /\ Cardinality(ExactUsers(match.query)) = 1
      /\ RLe(match.threshold, <<19, 20>>) )
    => ( /\ match.result.found
         /\ match.result.user_id \in ExactUsers(match.query)
         /\ RGe(match.result.confidence, <<19, 20>>) )

\* the rows of the gallery that compare_faces declares a match of q
MatchingRows(q) ==
    { i \in 1..Len(gallery) : compare_faces(gallery[i].embedding, q).is_match }

RowConfidence(i, q) == compare_faces(gallery[i].embedding, q).confidence

\* C12: find_best_match returns none exactly when no gallery entry is a match
\* with confidence >= confidence_threshold; so it returns none on an empty
\* gallery and an identity whenever a matching entry reaches the threshold.
C12_NoMatchOutcome ==
    match.called =>
        ( ~match.result.found
          <=> ~\E i \in MatchingRows(match.query) :
                   RGe(RowConfidence(i, match.query), match.threshold) )

\* C14: a find_best_match call that follows an earlier call with the same
\* embedding does not repeat the earlier result when the gallery as it is
\* now gives a different answer.
C14_GalleryFreshness ==
    [][ ( /\ match'.called
          /\ match.threshold \in Thresholds
          /\ match'.query = match.query
          /\ match'.threshold = match.threshold
          /\ SearchGallery(match'.query, gallery', match'.threshold) # match.result )
        => match'.result # match.result ]_vars

\* compare_faces of every gallery row with q
Compared(q) == [i \in 1..Len(gallery) |-> compare_faces(gallery[i].embedding, q)]

\* how many entries of a find_all_matches result are the pair (u, c)
CountResult(result, u, c) ==
    Cardinality({ i \in 1..Len(result) :
                    result[i].user_id = u /\ result[i].confidence = c })

\* how many matching rows of the gallery give the pair (u, c); cf = Compared(q)
CountRows(cf, u, c) ==
    Cardinality({ i \in 1..Len(gallery) :
                    cf[i].is_match /\ gallery[i].user_id = u /\ cf[i].confidence = c })

\* C13: find_all_matches returns min(top_k, number of matching rows) pairs,
\* each the (identity, confidence) of a matching row of its own, in order of
\* non-increasing confidence, and no omitted matching row has a confidence
\* above that of a returned pair.
C13_AllMatches ==
    all_matches.called =>
        \A cf \in { Compared(all_matches.query) } :
        LET result == all_matches.result
            matching == { i \in 1..Len(gallery) : cf[i].is_match }
        IN  /\ Len(result) = Min(all_matches.top_k, Cardinality(matching))
            /\ \A i, j \in 1..Len(result) :
                  i < j => RGe(result[i].confidence, result[j].confidence)
            /\ \A i \in 1..Len(result) :
                  CountResult(result, result[i].user_id, result[i].confidence)
                    <= CountRows(cf, result[i].user_id, result[i].confidence)
            /\ \A m \in matching :
                  CountResult(result, gallery[m].user_id, cf[m].confidence)
                    < CountRows(cf, gallery[m].user_id, cf[m].confidence)
                  => \A i \in 1..Len(result) :
                        RGe(result[i].confidence, cf[m].confidence)

\* find_all_matches returned two pairs of one identity in strictly decreasing
\* confidence and left out a third matching row
C13_Witness ==
    /\ all_matches.called
    /\ Len(all_matches.result) = 2
    /\ all_matches.result[1].user_id = all_matches.result[2].user_id
    /\ RGt(all_matches.result[1].confidence, all_matches.result[2].confidence)
    /\ Cardinality(MatchingRows(all_matches.query)) = Len(gallery)
    /\ Len(gallery) > 2

---------------------------------------------------------------------------
(* Claims about compare_faces, checked under CmpSpec *)

\* the combined distance of the last comparison
Distance == CombinedDistance(comparison.known, comparison.unknown)

\* C15: is_match is true exactly when d <= match_threshold, where
\* d = 0.7*d_e + 0.3*d_c when both vectors have a norm above zero and d = d_e
\* when one has norm zero; d_e is the Euclidean distance and
\* d_c = (1 - cosine similarity) / 2.
C15_MatchDecision ==
    comparison.called =>
        LET a == comparison.known
            b == comparison.unknown
            diff == <<a[1] - b[1], a[2] - b[2]>>
            d_e == Norm(ISqrt(Dot(diff, diff)), 10)
            norm_a == ISqrt(Dot(a, a))
            norm_b == ISqrt(Dot(b, b))
            d_c == RDiv(RSub(<<1, 1>>, Norm(Dot(a, b), norm_a * norm_b)), <<2, 1>>)
            d == IF norm_a = 0 \/ norm_b = 0
                 THEN d_e
                 ELSE RAdd(RMul(<<7, 10>>, d_e), RMul(<<3, 10>>, d_c))
        IN  comparison.is_match <=> RLe(d, match_threshold)

\* a comparison at exactly the default threshold, declared a match
C15_Witness ==
    /\ comparison.called
    /\ match_threshold = FACE_MATCH_THRESHOLD
    /\ Distance = match_threshold
    /\ comparison.is_match

Distances == { CombinedDistance(p[1], p[2]) : p \in ComparablePairs }

C18_SelfComparison ==
    (comparison.called /\ comparison.known = comparison.unknown) =>
        /\ Distance = <<0, 1>>
        /\ comparison.is_match
        /\ comparison.confidence = <<1, 1>>

\* the zero vector was compared with itself
C18_Witness ==
    /\ comparison.called
    /\ comparison.known = <<0, 0>>
    /\ comparison.unknown = <<0, 0>>
    /\ comparison.is_match

(* C28: with match_threshold at least 0.5, compare_faces returns is_match  *)
(* true exactly when the confidence is at least 0.70; with any             *)
(* match_threshold, is_match true implies a confidence of at least 0.70.   *)
C28_DecisionAgrees ==
    comparison.called =>
       /\ comparison.is_match => RGe(comparison.confidence, <<7, 10>>)
       /\ RGe(match_threshold, <<1, 2>>) =>
             (RGe(comparison.confidence, <<7, 10>>) => comparison.is_match)

\* with a threshold of at least 0.5, a pair just beyond the threshold: no
\* match, and a confidence between 0.60 and 0.70
C28_Witness ==
    /\ comparison.called
    /\ RGe(match_threshold, <<1, 2>>)
    /\ ~comparison.is_match
    /\ RGt(comparison.confidence, <<3, 5>>)
    /\ RLt(comparison.confidence, <<7, 10>>)

\* with a threshold below 0.5 a pair beyond it is no match at a confidence
\* above 0.70
BelowHalfDisagrees ==
    /\ comparison.called
    /\ RLt(match_threshold, <<1, 2>>)
    /\ ~comparison.is_match
    /\ RGe(comparison.confidence, <<7, 10>>)

---------------------------------------------------------------------------
(* Claims about failures inside the matching methods, under FaultSpec *)

(* C27: compare_faces, find_best_match and find_all_matches never leave by *)
(* an exception; when a collaborator fails during the call they return     *)
(* (False, 0.0), None and the empty list.                                  *)
C27_ErrorsSwallowed ==
    /\ ~outcome.raised
    /\ (outcome.op = "compare_faces" /\ outcome.fault # "none") =>
          (~comparison.is_match /\ comparison.confidence = <<0, 1>>)
    /\ (outcome.op = "find_best_match" /\ outcome.fault # "none") =>
          match.result = NoMatch
    /\ (outcome.op = "find_all_matches" /\ outcome.fault # "none") =>
          all_matches.result = <<>>

\* find_all_matches returned the empty list because the gallery store failed,
\* over a gallery in which the query has a match
C27_Witness ==
    /\ outcome.op = "find_all_matches"
    /\ outcome.fault = "store"
    /\ all_matches.result = <<>>
    /\ find_all_matches(all_matches.query, gallery, all_matches.top_k) # <<>>

\* compare_faces returned (False, 0.0) for a pair it compared without failure
GenuineZero ==
    /\ outcome.op = "compare_faces"
    /\ outcome.fault = "none"
    /\ ~comparison.is_match
    /\ comparison.confidence = <<0, 1>>

---------------------------------------------------------------------------
(* Claims about the association of detections with tracks, under AssocSpec *)

\* 0.6 * iou + 0.4 * (1 / (1 + encoding_dist)), encoding_dist in tenths
ScoreOf(c) == RAdd(RMul(<<3, 5>>, c.iou), RDiv(<<2, 5>>, Norm(10 + c.encoding_dist, 10)))

\* the position in a.candidates of the track the detection was associated with
Chosen(a) == CHOOSE j \in 1..Len(a.candidates) :
                 a.candidates[j].track_id = a.before.track_id

(* C21: a detection is associated with a track only if its score against   *)
(* that track, 0.6 * IoU + 0.4 / (1 + Euclidean distance), is strictly      *)
(* greater than iou_threshold; a detection whose score against every track *)
(* considered is at most iou_threshold, equality included, creates a track. *)
C21_AssociationThreshold ==
    \A i \in 1..Len(assoc) :
       \A a \in { assoc[i] } :
          /\ \A j \in 1..Len(a.candidates) : a.candidates[j].score = ScoreOf(a.candidates[j])
          /\ ~a.created =>
                \E j \in 1..Len(a.candidates) :
                    /\ a.candidates[j].track_id = a.before.track_id
                    /\ RGt(a.candidates[j].score, iou_threshold)
          /\ (\A j \in 1..Len(a.candidates) : RLe(a.candidates[j].score, iou_threshold))
                => /\ a.created
                   /\ a.after.track_id \notin { a.candidates[j].track_id :
                                                  j \in 1..Len(a.candidates) }

\* a detection scored exactly iou_threshold against a track and created a track
C21_Witness ==
    \E i \in 1..Len(assoc) :
        /\ assoc[i].created
        /\ \E j \in 1..Len(assoc[i].candidates) :
               assoc[i].candidates[j].score = iou_threshold

(* C22: the track a detection is associated with has the highest score of  *)
(* the tracks considered, and of several tracks with that score it is the  *)
(* first in dict (creation) order.                                         *)
C22_GreedyChoice ==
    \A i \in 1..Len(assoc) :
       \A a \in { assoc[i] } :
          ~a.created =>
             \A j0 \in { Chosen(a) } :
             \A j \in 1..Len(a.candidates) :
                /\ RLe(a.candidates[j].score, a.candidates[j0].score)
                /\ j < j0 => RLt(a.candidates[j].score, a.candidates[j0].score)

\* two tracks tied on the highest score and the earlier one was taken
C22_Witness ==
    \E i \in 1..Len(assoc) :
        /\ ~assoc[i].created
        /\ \E j \in 1..Len(assoc[i].candidates) :
               /\ j > Chosen(assoc[i])
               /\ assoc[i].candidates[j].score
                     = assoc[i].candidates[Chosen(assoc[i])].score

(* C29: with iou_threshold 0.3, a track at IoU 0 qualifies for a detection *)
(* (score above the threshold, so the detection is associated) when the    *)
(* embedding distance is below 1/3, and does not qualify (the detection is *)
(* not associated with that track) when the distance is 1/3 or more.       *)
C29_EmbeddingOnlyAssociation ==
    \A i \in 1..Len(assoc) :
       \A a \in { assoc[i] } :
       \A j \in 1..Len(a.candidates) :
          a.candidates[j].iou = <<0, 1>> =>
             IF 3 * a.candidates[j].encoding_dist < 10
             THEN RGt(a.candidates[j].score, iou_threshold) /\ ~a.created
             ELSE /\ RLe(a.candidates[j].score, iou_threshold)
                  /\ a.created \/ a.before.track_id # a.candidates[j].track_id

\* a detection was associated with a track at IoU 0 and distance 0.2, and
\* another detection of the frame made a track of its own at IoU 0 and
\* distance 0.4
C29_Witness ==
    /\ \E i \in 1..Len(assoc) :
          /\ ~assoc[i].created
          /\ assoc[i].candidates[Chosen(assoc[i])].iou = <<0, 1>>
          /\ assoc[i].candidates[Chosen(assoc[i])].encoding_dist = 2
    /\ \E i \in 1..Len(assoc) :
          /\ assoc[i].created
          /\ \E j \in 1..Len(assoc[i].candidates) :
                 /\ assoc[i].candidates[j].iou = <<0, 1>>
                 /\ assoc[i].candidates[j].encoding_dist = 4

(* C24: when the detection associated with a track carries an identity     *)
(* guess that is not none, the track's user_id, user_name and confidence   *)
(* become those of the guess, also when the guess is less confident than   *)
(* the identity the track had; when the guess is none they stay as they    *)
(* were.                                                                   *)
C24_IdentityBinding ==
    \A i \in 1..Len(assoc) :
       \A a \in { assoc[i] } :
          ~a.created =>
             IF a.det.user_info.some /\ a.det.user_info.user_id # NoId
             THEN /\ a.after.user_id = a.det.user_info.user_id
                  /\ a.after.user_name = a.det.user_info.user_name
                  /\ a.after.confidence = a.det.user_info.confidence
             ELSE /\ a.after.user_id = a.before.user_id
                  /\ a.after.user_name = a.before.user_name
                  /\ a.after.confidence = a.before.confidence

\* a track bound to one user was rebound to another by a less confident guess
C24_Witness ==
    \E i \in 1..Len(assoc) :
        /\ ~assoc[i].created
        /\ assoc[i].before.user_id # NoId
        /\ assoc[i].det.user_info.user_id # NoId
        /\ assoc[i].det.user_info.user_id # assoc[i].before.user_id
        /\ assoc[i].det.user_info.confidence < assoc[i].before.confidence
        /\ assoc[i].after.confidence = assoc[i].det.user_info.confidence

\* a track bound to a user was matched by a detection without a guess
NoneGuessOnBoundTrack ==
    \E i \in 1..Len(assoc) :
        /\ ~assoc[i].created
        /\ assoc[i].before.user_id # NoId
        /\ assoc[i].det.user_info.user_id = NoId

(* C25: a track is created with the embedding of its detection, a match    *)
(* leaves the stored embedding as it was, and from one call to the next    *)
(* (update_tracks, get_active_tracks) every track that is kept has the     *)
(* embedding it had.                                                       *)
C25_FixedEmbedding ==
    [][ /\ \A i \in 1..Len(assoc') :
              IF assoc'[i].created
              THEN assoc'[i].after.face_encoding = assoc'[i].det.encoding
              ELSE assoc'[i].after.face_encoding = assoc'[i].before.face_encoding
        /\ \A j \in 1..Len(tracks), k \in 1..Len(tracks') :
              tracks'[k].track_id = tracks[j].track_id
                 => tracks'[k].face_encoding = tracks[j].face_encoding ]_vars

\* a detection was associated with a track whose stored embedding differs
\* from the detection's, and the track still has the stored one
C25_Witness ==
    \E i \in 1..Len(assoc) :
        /\ ~assoc[i].created
        /\ assoc[i].det.encoding # assoc[i].before.face_encoding
        /\ \E k \in 1..Len(tracks) :
               /\ tracks[k].track_id = assoc[i].before.track_id
               /\ tracks[k].face_encoding = assoc[i].before.face_encoding

---------------------------------------------------------------------------
(* Claims about the tracks of earlier frames, under Spec *)

(* C23: update_tracks changes bbox, last_seen and frame_count of a track   *)
(* only when a detection of the frame is associated with it; any other     *)
(* track that existed before the call is afterwards either gone (evicted)  *)
(* or the same except that it is flagged lost.                             *)
C23_UnmatchedTracks ==
    [][ last'.op = "update_tracks" =>
          \A j \in 1..Len(tracks) :
             \/ tracks[j].track_id \in last'.matched_tracks
             \/ tracks[j].track_id \notin Ids(tracks')
             \/ \E k \in 1..Len(tracks') :
                    tracks'[k] = [tracks[j] EXCEPT !.is_lost = TRUE] ]_vars

\* a frame with detections left an earlier track in place, flagged lost and
\* not associated with any detection of the frame
C23_Witness ==
    /\ last.op = "update_tracks"
    /\ last.dets # <<>>
    /\ \E k \in 1..Len(tracks) :
          /\ tracks[k].is_lost
          /\ tracks[k].track_id \notin last.matched_tracks

---------------------------------------------------------------------------
(* Claims about the frame branch of the handler, under FrameSpec *)

\* the frame was dropped by the frame-rate limit (lines 450-452)
RateLimited == (now' - last_frame_time[frame'.session]) * MAX_FRAME_RATE < 1

\* no face of the frame is at least MIN_FACE_SIZE wide and high
NoFaceOfMinSize(faces) ==
    \A bbox \in faces :
        \/ bbox[2] - bbox[4] < MIN_FACE_SIZE
        \/ bbox[3] - bbox[1] < MIN_FACE_SIZE

\* C26 as stated: whenever processing a frame fails, one error message with
\* the frame's frame_id is sent and the connection stays open.
C26_FailureContainment ==
    [][ (event'.type = "frame" /\ frame'.failure # "none") =>
          /\ event'.reply = "error"
          /\ frame'.reply_frame_id = frame'.frame_id
          /\ InList(frame'.session, active_connections') ]_vars

(* C26, amended: when a frame fails by an exception that reaches the       *)
(* handler (decoding, tracking), one error message with the frame's        *)
(* frame_id is sent; when the encoder fails the frame is dropped without a *)
(* reply; in both cases the connection stays open, and a frame that        *)
(* follows a failed one is answered with its recognition_result.           *)
C26_FailureContainmentAmended ==
    [][ event'.type = "frame" =>
          /\ frame'.failure \in {"decode", "tracker"} =>
                /\ event'.reply = "error"
                /\ frame'.reply_frame_id = frame'.frame_id
          /\ frame'.failure = "encoder" => event'.reply = "none"
          /\ frame'.failure # "none" => InList(frame'.session, active_connections')
          /\ ( /\ frame'.previous # "none"
               /\ frame'.failure = "none"
               /\ frame'.faces # {}
               /\ ~RateLimited )
             => /\ event'.reply = "recognition_result"
                /\ frame'.reply_frame_id = frame'.frame_id ]_vars

\* a frame that follows a frame which failed in the tracker is answered
\* with the tracks of its faces
C26_Witness ==
    /\ event.type = "frame"
    /\ frame.previous = "tracker"
    /\ frame.failure = "none"
    /\ event.reply = "recognition_result"
    /\ last.op = "update_tracks"
    /\ last.result # <<>>

(* C30: a frame in which no face is detected, or no face of at least       *)
(* MIN_FACE_SIZE, or which the frame-rate limit drops, leaves the tracker  *)
(* as it was: no update_tracks call, same tracks with the same flags and   *)
(* timestamps, same next_track_id.                                         *)
C30_NoUsableFace ==
    [][ ( /\ event'.type = "frame"
          /\ \/ frame'.faces = {}
             \/ NoFaceOfMinSize(frame'.faces)
             \/ RateLimited )
        => /\ tracks' = tracks
           /\ next_track_id' = next_track_id
           /\ last' = last ]_vars

\* a frame whose only faces are too small, received while the tracker holds
\* a track that is not lost
C30_Witness ==
    /\ event.type = "frame"
    /\ frame.faces # {}
    /\ NoFaceOfMinSize(frame.faces)
    /\ last.op = "update_tracks"
    /\ \E k \in 1..Len(tracks) : ~tracks[k].is_lost

====
